---------------------------- MODULE Spec2Model ----------------------------
(***************************************************************************)
(* Reconciliation of the declarative layer list and map constants with     *)
(* the OpenLayers map, as done by the selectors of                         *)
(*   x-pack/plugins/gis/public/selectors/ol_map_selectors.js               *)
(*                                                                         *)
(* One pass is one evaluation of syncOLState with a new layer list and new *)
(* map constants: syncOLMap, then syncLayerInitialization, then the body   *)
(* of syncOLState (adds and updates, removeLayers, updateMapLayerOrder).   *)
(* Array indices are the 0-based indices of the JavaScript source; the     *)
(* element at index i of a collection s is s[i + 1].                       *)
(* Layer ids are truthy values (1..NumIds), as the generated ids of the    *)
(* application are.  An optional value (undefined or a value) is a set of  *)
(* at most one element.                                                    *)
(***************************************************************************)
EXTENDS Integers, Sequences, FiniteSets, TLC

\* ------------------------------------------------------------------ bounds
NumIds == 4        \* layer ids are 1..NumIds
MaxLen == 3        \* longest layer list handed to a pass
MaxHidden == 1     \* most layers of one layer list that are not visible
MaxZoom == 1       \* zoom levels are 0..MaxZoom
MaxCenter == 1     \* centers (lon-lat) are 0..MaxCenter
\* The depth of recursion at which the JavaScript call stack is exhausted.
\* It is kept above the deepest recursion a well-formed call needs.
StackLimit == 2 ^ NumIds

Ids == 1 .. NumIds

VARIABLES
    olLayers,          \* OL_MAP.getLayers(): the engine's layer collection
    view,              \* OL_VIEW: [zoom, center (web mercator)]
    layerList,         \* getLayerList(state) of the current / last pass
    mapConstants,      \* getMapConstants(state) of the current / last pass
    pc,                \* position of the pass
    layersWithOl,      \* result of syncLayerInitialization
    layersIds,         \* const layersIds of syncOLState
    next,              \* index of the next tuple of layersWithOl.forEach
    newLayerIdsOrder,  \* const newLayerIdsOrder of syncOLState
    layersToRemove,    \* indices of removeLayers still to be removed
    relocations,       \* depth of the recursion of updateMapLayerOrder
    \* history of the pass, read by the properties only
    startLayers,       \* olLayers when the pass began
    startView,         \* view when the pass began
    repeat,            \* the pass has the arguments of the pass before it
    removed,           \* ids of the layers removeLayers took out in this pass
    created,           \* ids of the layers created in the run of passes that
                       \* have listed them without interruption
    recreated,         \* ids created in this pass that were in created before
    styled             \* ids getOlLayerStyle was called for in this pass

vars == << olLayers, view, layerList, mapConstants, pc, layersWithOl, layersIds,
           next, newLayerIdsOrder, layersToRemove, relocations, startLayers,
           startView, repeat, removed, created, recreated, styled >>

\* ----------------------------------------------------------- array helpers
Min(a, b) == IF a < b THEN a ELSE b
Max(a, b) == IF a > b THEN a ELSE b

\* Array.prototype.find on an array of ids: the id found, or undefined.
Find(ids, id) == { ids[i] : i \in { j \in 1 .. Len(ids) : ids[j] = id } }

\* Array.prototype.findIndex(x => x === id): the first index, or -1.
FindIndex(ids, id) ==
    IF \E i \in 1 .. Len(ids) : ids[i] = id
    THEN (CHOOSE i \in 1 .. Len(ids) :
              /\ ids[i] = id
              /\ \A j \in 1 .. (i - 1) : ids[j] # id) - 1
    ELSE -1

\* array[idx]: the element, or undefined past the end.
At(array, idx) == IF idx >= 0 /\ idx < Len(array) THEN { array[idx + 1] } ELSE {}

\* The array after splice(idx, 1), idx >= 0 (ol.Collection.removeAt).
RemoveAt(array, idx) ==
    IF idx < Len(array)
    THEN [i \in 1 .. (Len(array) - 1) |-> IF i <= idx THEN array[i] ELSE array[i + 1]]
    ELSE array

\* The array after splice(idx, 0, elem) (ol.Collection.insertAt): a negative
\* index counts from the end, an index past the end appends.
InsertAt(array, idx, elem) ==
    LET start == IF idx < 0 THEN Max(Len(array) + idx, 0) ELSE Min(idx, Len(array))
    IN  [i \in 1 .. (Len(array) + 1) |->
            IF i <= start THEN array[i]
            ELSE IF i = start + 1 THEN elem ELSE array[i - 1]]

\* ------------------------------------------------------ layers and inputs
SupportedTypes == { "TILE", "VECTOR", "GEOHASH_GRID" }

\* The type tag of the layer with a given id (a layer keeps its type).
\* Every fourth id carries a tag that is none of LAYER_TYPE.
LayerTypeOf(id) ==
    CASE id % 4 = 1 -> "TILE"
      [] id % 4 = 2 -> "VECTOR"
      [] id % 4 = 3 -> "GEOHASH_GRID"
      [] OTHER -> "UNSUPPORTED"

Layer(id, visible) == [id |-> id, type |-> LayerTypeOf(id), visible |-> visible]

UniqueIds(ids) == \A i, j \in 1 .. Len(ids) : ids[i] = ids[j] => i = j

IdSeqs(maxLen) ==
    { ids \in UNION { [1 .. n -> Ids] : n \in 0 .. maxLen } : UniqueIds(ids) }

\* The layer lists handed to a pass: unique ids, at most MaxHidden hidden.
LayerLists ==
    UNION { { [i \in 1 .. Len(ids) |-> Layer(ids[i], i \notin hidden)] :
                hidden \in { h \in SUBSET (1 .. Len(ids)) : Cardinality(h) <= MaxHidden } } :
            ids \in IdSeqs(MaxLen) }

\* mapConstants.zoom and mapConstants.center: undefined, or a value.
MapConstantsChoices ==
    [ zoom : { {} } \cup { { z } : z \in 0 .. MaxZoom },
      center : { {} } \cup { { c } : c \in 0 .. MaxCenter } ]

\* ol.proj.transform(c, WGS_84, WEBMERCATOR) and back.  The projection is
\* computed in floating point: two neighbouring lon-lat values may project
\* to one point, so that projecting back does not return the value.
ToWebMercator(lonLat) == (lonLat + 1) \div 2
ToLonLat(point) == 2 * point

\* ------------------------------------------------------------ conversions
\* The ol layer class built for a layer type.  For any other type the
\* switch assigns nothing to olLayer (and throws, see Unconvertible).
OlClassOf(type) ==
    CASE type = "TILE" -> "ol.layer.Tile"
      [] type = "VECTOR" -> "ol.layer.Vector"
      [] type = "GEOHASH_GRID" -> "ol.layer.Heatmap"
      [] OTHER -> "undefined"

\* createCorrespondingOLLayer(layer), for a layer of a supported type.
CreateCorrespondingOLLayer(layer) ==
    [id |-> layer.id, visible |-> layer.visible, class |-> OlClassOf(layer.type)]

\* The hole a lenient collection holds after insertAt(-1, undefined).
UndefinedLayer == [id |-> 0, visible |-> FALSE, class |-> "undefined"]

GetLayersIds(mapLayers) == [i \in 1 .. Len(mapLayers) |-> mapLayers[i].id]

\* olLayerArray.find(olLayer => olLayer.get('id') === id): index of the
\* first match (1-based), or 0.
FindOlLayer(mapLayers, id) == FindIndex(GetLayersIds(mapLayers), id) + 1

\* ------------------------------------------------------------------- Init
\* OL_VIEW and OL_MAP as constructed: no layers, zoom 0, center fromLonLat([0, 0]).
Init ==
    /\ olLayers = << >>
    /\ view = [zoom |-> 0, center |-> ToWebMercator(0)]
    /\ layerList = << >>
    /\ mapConstants = [zoom |-> {}, center |-> {}]
    /\ pc = "idle"
    /\ layersWithOl = << >>
    /\ layersIds = << >>
    /\ next = 0
    /\ newLayerIdsOrder = << >>
    /\ layersToRemove = << >>
    /\ relocations = 0
    /\ startLayers = << >>
    /\ startView = [zoom |-> 0, center |-> ToWebMercator(0)]
    /\ repeat = FALSE
    /\ removed = {}
    /\ created = {}
    /\ recreated = {}
    /\ styled = {}

\* ------------------------------------------------------------- syncOLMap
\* syncOLMap without its test of the zoom being a number: an undefined zoom
\* is written to the view as well, which then has no zoom (here -1).
SyncedViewAnyZoom(olView, constants) ==
    LET centerInLonLat == ToLonLat(olView.center)
        zoom == IF constants.zoom # { olView.zoom }
                THEN IF constants.zoom = {} THEN -1
                     ELSE CHOOSE z \in constants.zoom : TRUE
                ELSE olView.zoom
        center == IF constants.center # {} /\ constants.center # { centerInLonLat }
                  THEN ToWebMercator(CHOOSE c \in constants.center : TRUE)
                  ELSE olView.center
    IN  [zoom |-> zoom, center |-> center]

\* syncOLMap with the test of the centers inverted: the center is written
\* when it is the center the view has already.
SyncedViewCenterIfEqual(olView, constants) ==
    LET centerInLonLat == ToLonLat(olView.center)
        zoom == IF constants.zoom # {} /\ constants.zoom # { olView.zoom }
                THEN CHOOSE z \in constants.zoom : TRUE
                ELSE olView.zoom
        center == IF constants.center # {} /\ constants.center = { centerInLonLat }
                  THEN ToWebMercator(CHOOSE c \in constants.center : TRUE)
                  ELSE olView.center
    IN  [zoom |-> zoom, center |-> center]

\* The view after the result function of syncOLMap.
SyncedView(olView, constants) ==
    LET centerInLonLat == ToLonLat(olView.center)
        zoom == IF constants.zoom # {} /\ constants.zoom # { olView.zoom }
                THEN CHOOSE z \in constants.zoom : TRUE
                ELSE olView.zoom
        center == IF constants.center # {} /\ constants.center # { centerInLonLat }
                  THEN ToWebMercator(CHOOSE c \in constants.center : TRUE)
                  ELSE olView.center
    IN  [zoom |-> zoom, center |-> center]

\* The map constants of the state changed: the memoised selector syncOLMap
\* runs its result function, which brings the view to the constants.  Right
\* after a run the constants may be a new object with the contents of the
\* one before, for which the selector runs again.
SyncOLMap ==
    /\ pc \in { "idle", "synced" }
    /\ \E constants \in (IF pc = "synced" THEN { mapConstants } ELSE MapConstantsChoices) :
        /\ mapConstants' = constants
        /\ view' = SyncedView(view, constants)
    /\ startView' = view
    /\ repeat' = (pc = "synced")
    /\ pc' = "synced"
    /\ UNCHANGED << olLayers, layerList, layersWithOl, layersIds, next,
                    newLayerIdsOrder, layersToRemove, relocations, startLayers,
                    removed, created, recreated, styled >>

\* The selectors have returned (syncOLState itself, or syncOLMap alone when
\* only the map constants changed) and the application moves on: what is
\* left of the pass is the map, its view and the record of the layers
\* created so far.
Idle ==
    /\ pc \in { "synced", "returned", "threw" }
    /\ pc' = "idle"
    /\ layerList' = << >>
    /\ mapConstants' = [zoom |-> {}, center |-> {}]
    /\ layersWithOl' = << >>
    /\ layersIds' = << >>
    /\ next' = 0
    /\ newLayerIdsOrder' = << >>
    /\ layersToRemove' = << >>
    /\ relocations' = 0
    /\ startLayers' = << >>
    /\ startView' = view
    /\ repeat' = FALSE
    /\ removed' = {}
    /\ styled' = {}
    /\ recreated' = {}
    /\ UNCHANGED << olLayers, view, created >>

\* ------------------------------------------------ syncLayerInitialization
\* syncLayerInitialization without the search of the collection: every
\* layer of the list gets a new ol layer.
LayerTupleAlwaysNew(mapLayers, layer) ==
    [layer |-> layer, olLayer |-> CreateCorrespondingOLLayer(layer), inMap |-> FALSE]

\* The tuple of one layer: the layer found in the collection, or a new one.
LayerTuple(mapLayers, layer) ==
    LET found == FindOlLayer(mapLayers, layer.id)
    IN  IF found # 0
        THEN [layer |-> layer, olLayer |-> mapLayers[found], inMap |-> TRUE]
        ELSE [layer |-> layer, olLayer |-> CreateCorrespondingOLLayer(layer),
              inMap |-> FALSE]

\* The layers of the list createCorrespondingOLLayer is called for, up to
\* and including index upTo (1-based).
Converted(mapLayers, list, upTo) ==
    { i \in 1 .. upTo : FindOlLayer(mapLayers, list[i].id) = 0 }

\* createCorrespondingOLLayer with a default case that lets the layer pass.
UnconvertibleNever(mapLayers, list) == {}

\* Indices of the layers createCorrespondingOLLayer throws for.
Unconvertible(mapLayers, list) ==
    { i \in Converted(mapLayers, list, Len(list)) : list[i].type \notin SupportedTypes }

\* The layer list of the state changed: syncLayerInitialization pairs every
\* layer with its ol layer.  When the map constants changed too, syncOLMap
\* has run before it.  Right after a pass the list may be a new list with
\* the contents of the one before.
SyncLayerInitialization ==
    /\ pc \in { "idle", "returned", "threw" }
    /\ \E list \in (IF pc \in { "returned", "threw" } THEN { layerList } ELSE LayerLists) :
        LET bad == Unconvertible(olLayers, list)
            last == IF bad = {} THEN Len(list)
                    ELSE CHOOSE i \in bad : \A j \in bad : i <= j
            calls == { list[i].id : i \in Converted(olLayers, list, last) \ bad }
            listed == { list[i].id : i \in 1 .. Len(list) }
        IN  /\ layerList' = list
            /\ created' = (created \cap listed) \cup calls
            /\ recreated' = created \cap calls
            \* convertVectorLayersToOl resolves the style of the new layer
            /\ styled' = { id \in calls : LayerTypeOf(id) = "VECTOR" }
            /\ IF bad = {}
               THEN /\ layersWithOl' = [i \in 1 .. Len(list) |->
                                           LayerTuple(olLayers, list[i])]
                    /\ pc' = "body"
               ELSE /\ layersWithOl' = << >>
                    /\ pc' = "threw"
    /\ repeat' = (pc \in { "returned", "threw" })
    /\ mapConstants' = [zoom |-> {}, center |-> {}]
    /\ startLayers' = olLayers
    /\ startView' = view
    /\ layersIds' = << >>
    /\ next' = 0
    /\ newLayerIdsOrder' = << >>
    /\ layersToRemove' = << >>
    /\ relocations' = 0
    /\ removed' = {}
    /\ UNCHANGED << olLayers, view >>

\* ------------------------------------------------------------ syncOLState
\* const layersIds = getLayersIds(olMap.getLayers())
SyncOLStateEnter ==
    /\ pc = "body"
    /\ layersIds' = GetLayersIds(olLayers)
    /\ next' = 1
    /\ pc' = "adds"
    /\ UNCHANGED << olLayers, view, layerList, mapConstants, layersWithOl,
                    newLayerIdsOrder, layersToRemove, relocations, startLayers,
                    startView, repeat, removed, created, recreated, styled >>

\* addLayers without the test on currentLayersIds.
AddLayersAlways(mapLayers, newLayer, currentLayersIds) ==
    Append(mapLayers, newLayer)

\* addLayers(map, newLayer, currentLayersIds): the collection afterwards.
AddLayers(mapLayers, newLayer, currentLayersIds) ==
    IF Find(currentLayersIds, newLayer.id) = {}
    THEN Append(mapLayers, newLayer)
    ELSE mapLayers

\* The places of the collection that hold the ol layer of a tuple, once
\* addLayers has run for it.
PlacesOf(mapLayers, tuple, currentLayersIds) ==
    (IF tuple.inMap THEN { FindOlLayer(mapLayers, tuple.olLayer.id) } \ { 0 } ELSE {})
    \cup (IF Find(currentLayersIds, tuple.olLayer.id) = {}
          THEN { Len(mapLayers) + 1 } ELSE {})

\* The forEach without its call of setVisible.
SetVisibleSkipped(mapLayers, places, visible) == mapLayers

\* olLayer.setVisible(visible) for the ol layer held at the given places.
SetVisible(mapLayers, places, visible) ==
    [i \in 1 .. Len(mapLayers) |->
        IF i \in places THEN [mapLayers[i] EXCEPT !.visible = visible]
        ELSE mapLayers[i]]

\* The forEach without the test of the layer type before the style update.
UpdatesStyleAlways(layer) == TRUE

\* if (layer.getType() === LAYER_TYPE.VECTOR): the forEach calls
\* updateFillAndOutlineStyle, and with it getOlLayerStyle, for the layer.
UpdatesStyle(layer) == layer.type = "VECTOR"

\* One iteration of layersWithOl.forEach: add, set visibility, style.
AddsAndUpdates ==
    /\ pc = "adds"
    /\ next <= Len(layersWithOl)
    /\ LET tuple == layersWithOl[next]
           places == PlacesOf(olLayers, tuple, layersIds)
       IN  /\ olLayers' = SetVisible(AddLayers(olLayers, tuple.olLayer, layersIds),
                                     places, tuple.layer.visible)
           /\ styled' = IF UpdatesStyle(tuple.layer)
                        THEN styled \cup { tuple.layer.id } ELSE styled
    /\ next' = next + 1
    /\ UNCHANGED << view, layerList, mapConstants, pc, layersWithOl, layersIds,
                    newLayerIdsOrder, layersToRemove, relocations, startLayers,
                    startView, repeat, removed, created, recreated >>

\* removeLayers with the test of its first loop inverted: it collects the
\* indices of the layers whose ids are in updatedLayersIds.
LayersToRemoveListed(existingMapLayers, updatedLayersIds) ==
    LET listed == { idx \in 0 .. (Len(existingMapLayers) - 1) :
                      Find(updatedLayersIds, existingMapLayers[idx + 1].id) # {} }
        Sorted[S \in SUBSET listed] ==
            IF S = {} THEN << >>
            ELSE LET least == CHOOSE x \in S : \A y \in S : x <= y
                 IN  << least >> \o Sorted[S \ { least }]
    IN  Sorted[listed]

\* The indices removeLayers collects in layersToRemove, in ascending order.
LayersToRemove(existingMapLayers, updatedLayersIds) ==
    LET absent == { idx \in 0 .. (Len(existingMapLayers) - 1) :
                      Find(updatedLayersIds, existingMapLayers[idx + 1].id) = {} }
        Sorted[S \in SUBSET absent] ==
            IF S = {} THEN << >>
            ELSE LET least == CHOOSE x \in S : \A y \in S : x <= y
                 IN  << least >> \o Sorted[S \ { least }]
    IN  Sorted[absent]

\* After the forEach: newLayerIdsOrder, and the first loop of removeLayers.
RemoveLayersCollect ==
    /\ pc = "adds"
    /\ next > Len(layersWithOl)
    /\ LET order == [i \in 1 .. Len(layersWithOl) |-> layersWithOl[i].layer.id]
           indices == LayersToRemove(olLayers, order)
       IN  /\ newLayerIdsOrder' = order
           /\ layersToRemove' = indices
           /\ pc' = IF indices = << >> THEN "order" ELSE "removes"
    /\ UNCHANGED << olLayers, view, layerList, mapConstants, layersWithOl,
                    layersIds, next, relocations, startLayers, startView,
                    repeat, removed, created, recreated, styled >>

\* One iteration of layersToRemove.forEach: existingMapLayers.removeAt(layerIdx).
\* removeAt of an index past the end leaves the array as it is; the
\* collection then reports the removal of undefined to its listeners, where
\* the call either passes or throws.
RemoveLayersRemoveAt ==
    /\ pc = "removes"
    /\ layersToRemove # << >>
    /\ LET layerIdx == Head(layersToRemove)
           inRange == layerIdx < Len(olLayers)
       IN  /\ olLayers' = RemoveAt(olLayers, layerIdx)
           /\ removed' = IF inRange THEN removed \cup { olLayers[layerIdx + 1].id }
                         ELSE removed
           /\ \E throws \in (IF inRange THEN { FALSE } ELSE BOOLEAN) :
                pc' = IF throws THEN "threw"
                      ELSE IF Tail(layersToRemove) = << >> THEN "order"
                      ELSE "removes"
    /\ layersToRemove' = Tail(layersToRemove)
    /\ UNCHANGED << view, layerList, mapConstants, layersWithOl, layersIds, next,
                    newLayerIdsOrder, relocations, startLayers, startView, repeat,
                    created, recreated, styled >>

\* ---------------------------------------------------- updateMapLayerOrder
\* The indices at which oldLayerOrder[idx] !== newOrderId.
Mismatches(oldLayerOrder, newLayerOrder) ==
    { idx \in 0 .. (Len(newLayerOrder) - 1) :
        At(oldLayerOrder, idx) # { newLayerOrder[idx + 1] } }

\* findIndex run on oldLayerOrder instead of newLayerOrder.
NewIdxInOld(oldLayerOrder, newLayerOrder, idx) ==
    FindIndex(oldLayerOrder, oldLayerOrder[idx + 1])

\* The index of the layer in newLayerOrder, less one.
NewIdxLessOne(oldLayerOrder, newLayerOrder, idx) ==
    FindIndex(newLayerOrder, oldLayerOrder[idx + 1]) - 1

\* newIdx = newLayerOrder.findIndex(id => id === oldLayerOrder[idx])
NewIdx(oldLayerOrder, newLayerOrder, idx) ==
    FindIndex(newLayerOrder, oldLayerOrder[idx + 1])

\* insertAt(newIdx, layerToMove) done before removeAt(idx).
RelocateInsertFirst(mapLayers, oldLayerOrder, newLayerOrder, idx) ==
    RemoveAt(InsertAt(mapLayers, FindIndex(newLayerOrder, oldLayerOrder[idx + 1]),
                      mapLayers[idx + 1]), idx)

\* removeAt(idx) followed by push(layerToMove).
RelocateAppend(mapLayers, oldLayerOrder, newLayerOrder, idx) ==
    Append(RemoveAt(mapLayers, idx), mapLayers[idx + 1])

\* removeAt(idx) followed by insertAt(newIdx, layerToMove), idx in range.
Relocate(mapLayers, oldLayerOrder, newLayerOrder, idx) ==
    InsertAt(RemoveAt(mapLayers, idx), NewIdx(oldLayerOrder, newLayerOrder, idx),
             mapLayers[idx + 1])

\* One call of updateMapLayerOrder: it returns when the orders agree, and
\* otherwise relocates the layer at the first mismatch and calls itself.
\* The call stack gives out at depth StackLimit (RangeError).  With no layer
\* at the mismatching index the call moves undefined: it throws there or
\* leaves a hole in the collection and throws in getLayersIds.
UpdateMapLayerOrder ==
    /\ pc = "order"
    /\ LET oldLayerOrder == GetLayersIds(olLayers)
           mismatches == Mismatches(oldLayerOrder, newLayerIdsOrder)
           idx == CHOOSE i \in mismatches : \A j \in mismatches : i <= j
       IN  IF mismatches = {}
           THEN /\ pc' = "returned"
                /\ UNCHANGED << olLayers, relocations >>
           ELSE IF relocations >= StackLimit
           THEN /\ pc' = "threw"
                /\ UNCHANGED << olLayers, relocations >>
           ELSE IF idx < Len(olLayers)
           THEN /\ olLayers' = Relocate(olLayers, oldLayerOrder, newLayerIdsOrder, idx)
                /\ relocations' = relocations + 1
                /\ pc' = "order"
           ELSE /\ \E hole \in BOOLEAN :
                     olLayers' = IF hole THEN InsertAt(olLayers, -1, UndefinedLayer)
                                 ELSE olLayers
                /\ pc' = "threw"
                /\ UNCHANGED relocations
    /\ UNCHANGED << view, layerList, mapConstants, layersWithOl, layersIds, next,
                    newLayerIdsOrder, layersToRemove, startLayers, startView,
                    repeat, removed, created, recreated, styled >>

\* ---------------------------------------------------------- specifications
Next ==
    \/ SyncOLMap
    \/ SyncLayerInitialization
    \/ SyncOLStateEnter
    \/ AddsAndUpdates
    \/ RemoveLayersCollect
    \/ RemoveLayersRemoveAt
    \/ UpdateMapLayerOrder
    \/ Idle

Spec == Init /\ [][Next]_vars

\* updateMapLayerOrder by itself: called for a collection and a new order
\* that hold the same ids.
OrderInputs ==
    { io \in IdSeqs(NumIds) \X IdSeqs(NumIds) :
        /\ Len(io[1]) = Len(io[2])
        /\ \A i \in 1 .. Len(io[1]) : \E j \in 1 .. Len(io[2]) : io[1][i] = io[2][j] }

InitOrder ==
    /\ \E io \in OrderInputs :
        /\ olLayers = [i \in 1 .. Len(io[1]) |->
                          [id |-> io[1][i], visible |-> TRUE, class |-> "ol.layer.Tile"]]
        /\ newLayerIdsOrder = io[2]
    /\ startLayers = olLayers
    /\ view = [zoom |-> 0, center |-> ToWebMercator(0)]
    /\ layerList = << >>
    /\ mapConstants = [zoom |-> {}, center |-> {}]
    /\ pc = "order"
    /\ layersWithOl = << >>
    /\ layersIds = << >>
    /\ next = 0
    /\ layersToRemove = << >>
    /\ relocations = 0
    /\ startView = view
    /\ repeat = FALSE
    /\ removed = {}
    /\ created = {}
    /\ recreated = {}
    /\ styled = {}

NextOrder == UpdateMapLayerOrder

SpecOrder == InitOrder /\ [][NextOrder]_vars

\* ------------------------------------------------------------- properties
SetOf(seq) == { seq[i] : i \in 1 .. Len(seq) }
EngineIds == GetLayersIds(olLayers)
StartIds == GetLayersIds(startLayers)
DesiredIds == [i \in 1 .. Len(layerList) |-> layerList[i].id]
KnownTypes == \A i \in 1 .. Len(layerList) : layerList[i].type \in SupportedTypes
Ended == pc \in { "returned", "threw" }

\* C1: when a pass over a layer list of known types has ended, the set of
\* ids in the collection is the set of ids of the layer list.
C1_Membership ==
    (Ended /\ KnownTypes) => SetOf(EngineIds) = SetOf(DesiredIds)

\* C2: a pass that finds the collection holding a permutation of the ids of
\* the layer list returns, with the ids of the collection in the order of
\* the layer list.
C2_OrderOfPermutation ==
    (Ended /\ UniqueIds(StartIds) /\ SetOf(StartIds) = SetOf(DesiredIds))
        => (pc = "returned" /\ EngineIds = DesiredIds)

C2_Witness ==
    /\ pc = "returned"
    /\ SetOf(StartIds) = SetOf(DesiredIds)
    /\ Len(StartIds) = 3
    /\ relocations >= 2
    /\ EngineIds = DesiredIds

\* C3: a pass run right after a pass with the same layer list leaves the
\* layers of the collection, their visibility and the view as the first
\* pass left them.
C3_Idempotent ==
    (Ended /\ repeat) => (olLayers = startLayers /\ view = startView)

\* C4: for a collection and a new order that are permutations of the same
\* ids, updateMapLayerOrder ends, by returning, and the collection then has
\* the ids in the new order.
C4_Converges ==
    /\ pc # "threw"
    /\ relocations < StackLimit
    /\ pc = "returned" => EngineIds = newLayerIdsOrder

C4_Witness ==
    /\ pc = "returned"
    /\ Len(newLayerIdsOrder) = 4
    /\ relocations >= 4
    /\ EngineIds = newLayerIdsOrder

\* C5 as stated: updateMapLayerOrder relocates at most n times for
\* permutations of n ids.
C5_AtMostN == relocations <= Len(newLayerIdsOrder)

\* C5 as amended: updateMapLayerOrder relocates at most n times for
\* permutations of n <= 3 ids, and at most 2^(n-1) - 1 times for more.
C5_AtMostExp ==
    LET n == Len(newLayerIdsOrder)
    IN  relocations <= IF n <= 3 THEN n ELSE 2 ^ (n - 1) - 1

C5_Witness ==
    /\ pc = "returned"
    /\ Len(newLayerIdsOrder) = 4
    /\ relocations = 7

\* C6: removeLayers never removes a layer whose id is in the layer list, and
\* when it is over it has removed exactly the layers of the collection whose
\* ids are not in the layer list.
RemovalOver ==
    \/ pc \in { "order", "returned" }
    \/ pc = "threw" /\ next > Len(layersWithOl)

C6_RemovalExact ==
    /\ removed \cap SetOf(DesiredIds) = {}
    /\ RemovalOver => removed = SetOf(layersIds) \ SetOf(DesiredIds)

\* C7: no layer is created a second time while every pass since its
\* creation has had it in the layer list.
C7_NoRecreation == recreated = {}

\* C8: the collection never holds two layers with the same id, in any state
\* of any phase of any pass.
C8_UniqueIds == UniqueIds(EngineIds)

C8_Witness ==
    /\ pc = "order"
    /\ relocations >= 1
    /\ removed # {}
    /\ SetOf(EngineIds) \ SetOf(StartIds) # {}
    /\ Len(olLayers) >= 2

\* C9: a pass ends, the recursion of updateMapLayerOrder never going on
\* without end, and when it returns the ids of the collection are the ids of
\* the layer list, in order.
C9_CompletesOrThrows ==
    /\ relocations < StackLimit
    /\ pc = "returned" => EngineIds = DesiredIds

\* C10: when a pass has returned, every layer of the layer list has an ol
\* layer in the collection, and the visibility of that ol layer is the
\* visibility of the layer.
C10_Visibility ==
    pc = "returned" =>
        \A i \in 1 .. Len(layerList) :
            /\ \E j \in 1 .. Len(olLayers) : olLayers[j].id = layerList[i].id
            /\ \A j \in 1 .. Len(olLayers) :
                   olLayers[j].id = layerList[i].id
                       => olLayers[j].visible = layerList[i].visible

C10_Witness ==
    /\ pc = "returned"
    /\ \E i \in 1 .. Len(layerList), j \in 1 .. Len(startLayers) :
           /\ startLayers[j].id = layerList[i].id
           /\ startLayers[j].visible # layerList[i].visible
           /\ ~ layerList[i].visible
    /\ \E i \in 1 .. Len(layerList) : layerList[i].id \notin SetOf(StartIds)
\* C11: when syncOLMap has run with constants that have a zoom and a center,
\* the zoom of the view is the zoom of the constants and the center of the
\* view is the projection of their center; a second run with the same
\* constants leaves the zoom and the center of the view as they were.
C11_ViewConverges ==
    (pc = "synced" /\ mapConstants.zoom # {} /\ mapConstants.center # {}) =>
        /\ mapConstants.zoom = { view.zoom }
        /\ view.center = ToWebMercator(CHOOSE c \in mapConstants.center : TRUE)
        /\ repeat => view = startView

C11_Witness ==
    /\ pc = "synced"
    /\ repeat
    /\ mapConstants.zoom = { 1 }
    /\ mapConstants.center # {}
    /\ mapConstants.center # { ToLonLat(view.center) }
    /\ view = startView
    /\ view.center # ToWebMercator(0)

\* C12: getOlLayerStyle is called, in the creation of an ol layer or in a
\* later pass, for layers of type VECTOR only: never for a layer of type
\* TILE or GEOHASH_GRID.
C12_StyleGating == \A id \in styled : LayerTypeOf(id) = "VECTOR"

C12_Witness ==
    /\ pc = "returned"
    /\ styled # {}
    /\ \E i \in 1 .. Len(layerList) :
           /\ layerList[i].type = "TILE"
           /\ layerList[i].id \in SetOf(StartIds)
    /\ \E i \in 1 .. Len(layerList) :
           /\ layerList[i].type = "GEOHASH_GRID"
           /\ layerList[i].id \notin SetOf(StartIds)


\* C13: a pass that finds the collection [1 (TILE), 2 (VECTOR)] and has the
\* layer list [2 (VECTOR), 3 (GEOHASH_GRID)] returns; it has removed layer 1
\* and no other, has built layer 3 as an ol.layer.Heatmap, leaves the
\* collection in the order [2, 3], and the ol layer of 2 is the one found in
\* the collection, not a new one.
C13_Scenario ==
    ( /\ Ended
      /\ [i \in 1 .. Len(startLayers) |-> << startLayers[i].id, startLayers[i].class >>]
             = << << 1, "ol.layer.Tile" >>, << 2, "ol.layer.Vector" >> >>
      /\ [i \in 1 .. Len(layerList) |-> << layerList[i].id, layerList[i].type >>]
             = << << 2, "VECTOR" >>, << 3, "GEOHASH_GRID" >> >> )
    => /\ pc = "returned"
       /\ removed = { 1 }
       /\ EngineIds = << 2, 3 >>
       /\ olLayers[1].class = "ol.layer.Vector"
       /\ olLayers[2].class = "ol.layer.Heatmap"
       /\ layersWithOl[1].inMap
       /\ ~ layersWithOl[2].inMap
       /\ 2 \notin recreated

C13_Witness ==
    /\ pc = "returned"
    /\ StartIds = << 1, 2 >>
    /\ DesiredIds = << 2, 3 >>
    /\ EngineIds = << 2, 3 >>
    /\ removed = { 1 }
    /\ olLayers[1].visible # startLayers[2].visible


\* C14: updateMapLayerOrder called for a collection and a new order that
\* are not permutations of the same ids raises an error at once: such a call
\* neither relocates a layer nor returns.
C14_InvariantViolation ==
    ( /\ pc \in { "order", "returned" }
      /\ ~ ( /\ Len(EngineIds) = Len(newLayerIdsOrder)
             /\ SetOf(EngineIds) = SetOf(newLayerIdsOrder) ) )
    => (pc = "order" /\ relocations = 0)


\* C15: a pass whose layer list has a layer that is not in the collection
\* and whose type is none of TILE, VECTOR, GEOHASH_GRID fails in the
\* conversion, with the collection (layers, order, visibility) as it was
\* before the pass.
C15_UnsupportedLayerType ==
    (\E i \in 1 .. Len(layerList) :
        /\ layerList[i].type \notin SupportedTypes
        /\ layerList[i].id \notin SetOf(StartIds))
    => (pc = "threw" /\ olLayers = startLayers /\ next = 0)

C15_Witness ==
    /\ pc = "threw"
    /\ Len(layerList) = 3
    /\ layerList[3].type \notin SupportedTypes
    /\ layerList[1].id \notin SetOf(StartIds)
    /\ \E j \in 1 .. Len(startLayers) :
           /\ startLayers[j].id = layerList[2].id
           /\ startLayers[j].visible # layerList[2].visible
    /\ SetOf(StartIds) \ SetOf(DesiredIds) # {}
    /\ olLayers = startLayers


\* The length of the longest common prefix of two arrays of ids.
CommonPrefix(a, b) ==
    LET agree == { k \in 0 .. Min(Len(a), Len(b)) : \A i \in 1 .. k : a[i] = b[i] }
    IN  CHOOSE k \in agree : \A l \in agree : l <= k

\* The sum of 2^j over the indices j at which two arrays of ids agree.
AgreementWeight(a, b) ==
    LET Sum[k \in 0 .. Min(Len(a), Len(b))] ==
            IF k = 0 THEN 0
            ELSE Sum[k - 1] + (IF a[k] = b[k] THEN 2 ^ (k - 1) ELSE 0)
    IN  Sum[Min(Len(a), Len(b))]

\* A step is one relocation of updateMapLayerOrder.
Relocation == pc = "order" /\ relocations' = relocations + 1

\* C16 as stated: every relocation of updateMapLayerOrder, for permutations
\* of the same ids, makes the common prefix of the ids of the collection and
\* the new order strictly longer.
C16_PrefixGrows ==
    [][Relocation =>
          CommonPrefix(GetLayersIds(olLayers'), newLayerIdsOrder)
              > CommonPrefix(GetLayersIds(olLayers), newLayerIdsOrder)]_vars

\* C16 as amended: every relocation leaves the common prefix at least as
\* long as it was, and makes the sum of 2^j over the indices j at which the
\* collection agrees with the new order strictly larger.
C16_PrefixKept ==
    [][Relocation =>
          /\ CommonPrefix(GetLayersIds(olLayers'), newLayerIdsOrder)
                 >= CommonPrefix(GetLayersIds(olLayers), newLayerIdsOrder)
          /\ AgreementWeight(GetLayersIds(olLayers'), newLayerIdsOrder)
                 > AgreementWeight(GetLayersIds(olLayers), newLayerIdsOrder)]_vars

C16_Witness ==
    /\ pc = "order"
    /\ relocations >= 2
    /\ CommonPrefix(EngineIds, newLayerIdsOrder) = 0
    /\ AgreementWeight(EngineIds, newLayerIdsOrder) > 0


\* C17: the view is written by syncOLMap only, which leaves the zoom as it
\* is when the constants have no zoom and the center as it is when they have
\* no center; the pairing, the additions, the updates of visibility and
\* style, the removals and the reordering leave the view alone, and
\* syncOLMap leaves the collection of layers alone.
C17_ViewFrame ==
    [][ /\ pc' # "synced" => view' = view
        /\ pc' = "synced" =>
              /\ olLayers' = olLayers
              /\ mapConstants'.zoom = {} => view'.zoom = view.zoom
              /\ mapConstants'.center = {} => view'.center = view.center ]_vars

C17_Witness ==
    /\ pc = "synced"
    /\ mapConstants.zoom = {}
    /\ mapConstants.center # {}
    /\ view.zoom = 1
    /\ view.center # startView.center
    /\ Len(olLayers) >= 2


\* C18: a pass over a layer list of known types that finds at most one layer
\* in the collection whose id is not in the list returns, without the
\* recursion of updateMapLayerOrder running into the stack limit, and the
\* ids of the collection are then the ids of the list, in order; until then
\* its removals have taken out no other layer.
C18_SingleRemoval ==
    ( /\ pc \in { "removes", "order", "returned", "threw" }
      /\ KnownTypes
      /\ Cardinality(SetOf(StartIds) \ SetOf(DesiredIds)) <= 1 )
    => /\ pc # "threw"
       /\ relocations < StackLimit
       /\ removed \subseteq SetOf(StartIds) \ SetOf(DesiredIds)
       /\ pc = "returned" => EngineIds = DesiredIds

C18_Witness ==
    /\ pc = "returned"
    /\ Cardinality(SetOf(StartIds) \ SetOf(DesiredIds)) = 1
    /\ removed = SetOf(StartIds) \ SetOf(DesiredIds)
    /\ SetOf(DesiredIds) \ SetOf(StartIds) # {}
    /\ SetOf(DesiredIds) \cap SetOf(StartIds) # {}
    /\ relocations >= 1
    /\ EngineIds = DesiredIds


\* The first index at which the collection differs from the new order.
FirstMismatch == CommonPrefix(EngineIds, newLayerIdsOrder)

\* C19: every relocation of updateMapLayerOrder, for permutations of the
\* same ids, moves the layer of the first mismatching index i to an index
\* target > i; after the step the layer is at target, where the new order
\* has its id, and every index after target holds the layer it held.
C19_RelocationVariant ==
    [][Relocation =>
          LET i == FirstMismatch
              moved == olLayers[i + 1]
              target == FindIndex(GetLayersIds(olLayers'), moved.id)
          IN  /\ target > i
              /\ target < Len(olLayers')
              /\ olLayers'[target + 1] = moved
              /\ newLayerIdsOrder[target + 1] = moved.id
              /\ Len(olLayers') = Len(olLayers)
              /\ \A j \in (target + 2) .. Len(olLayers) : olLayers'[j] = olLayers[j]
              /\ \A j \in 1 .. i : olLayers'[j] = olLayers[j]]_vars

C19_Witness ==
    /\ pc = "order"
    /\ relocations >= 1
    /\ FirstMismatch >= 1
    /\ FirstMismatch + 2 < Len(olLayers)
    /\ \E j \in (FirstMismatch + 2) .. Len(olLayers) :
           /\ olLayers[j].id = newLayerIdsOrder[j]
           /\ olLayers[j - 1].id # newLayerIdsOrder[j - 1]


\* C20: for permutations of the same n >= 1 ids updateMapLayerOrder
\* relocates at most 2^(n-1) - 1 times; the bound is reached, as by the 7
\* relocations for a collection of 4 layers rotated by one place.
C20_RelocationCount ==
    Len(newLayerIdsOrder) >= 1 => relocations <= 2 ^ (Len(newLayerIdsOrder) - 1) - 1

C20_Witness ==
    /\ pc = "returned"
    /\ StartIds = << 1, 2, 3, 4 >>
    /\ newLayerIdsOrder = << 4, 1, 2, 3 >>
    /\ EngineIds = newLayerIdsOrder
    /\ relocations = 2 ^ (Len(newLayerIdsOrder) - 1) - 1

=============================================================================
